---- MODULE Spec2Model ----
(***************************************************************************)
(* libwtf: the diamond-square height map generator (diamond_square.hpp)    *)
(* and the benchmark logger (benchmark.hpp).                               *)
(*                                                                         *)
(* Height values of type T are modelled as exact non-negative rationals    *)
(* <<numerator, denominator>> in lowest terms (floating point rounding is  *)
(* abstracted).  std::size_t is modelled as an unsigned word of WordMod    *)
(* values; every word operation wraps modulo WordMod as in the code.       *)
(***************************************************************************)
EXTENDS Integers, Sequences, FiniteSets

(***************************************************************************)
(* Bounds of the model.                                                    *)
(***************************************************************************)
\* requested factors are drawn from 0..MaxFactorArg (below and above the range)
MaxFactorArg == 14
\* build_map is explored step by step on instances whose factor is at most this
MaxBuildFactor == 2
\* seeds are drawn from 0..MaxSeed
MaxSeed == 1
\* offsets are drawn from 1..MaxOffset
MaxOffset == 2
\* the index function is explored on every coordinate of sides up to this factor
MaxIndexFactor == 3
\* context switches between the two building threads
MaxSwitches == 2
\* records in the benchmark log
MaxRecords == 2
\* ticks of the system clock
MaxTicks == 1
\* largest factor whose build is followed to its end under fairness
MaxLiveFactor == 3

(***************************************************************************)
(* Program constants.                                                      *)
(***************************************************************************)
min_size == 2
max_size == 12
\* <cstdlib> RAND_MAX, scaled down
RAND_MAX == 7
\* number of values of the std::size_t model
WordMod == 2^28

Inst == {1, 2}
Seeds == 0..MaxSeed
Offsets == 1..MaxOffset
FactorArgs == 0..MaxFactorArg

(***************************************************************************)
(* Arithmetic of T.                                                        *)
(***************************************************************************)
\* Each operation binds its operands and intermediate results to values (the
\* one element of a singleton set), so that each is computed once.
RECURSIVE GCD(_, _)
GCD(a, b) == IF b = 0 THEN a ELSE CHOOSE g \in {GCD(b, r) : r \in {a % b}} : TRUE

\* n / d in lowest terms
Rat(n, d) ==
    IF n = 0 THEN <<0, 1>>
    ELSE CHOOSE q \in {<<n \div g, d \div g>> : g \in {GCD(n, d)}} : TRUE

\* sums and products are formed over reduced terms, which keeps the integers small
RAdd(a, b) ==
    CHOOSE r \in {Rat(p[1][1] * (p[2][2] \div p[3]) + p[2][1] * (p[1][2] \div p[3]),
                      (p[1][2] \div p[3]) * p[2][2]) :
                  p \in {<<u, v, GCD(u[2], v[2])>> : u \in {a}, v \in {b}}} : TRUE

RMul(a, b) ==
    CHOOSE r \in {<<p[1][1] * p[2][1], p[1][2] * p[2][2]>> :
                  p \in {<<Rat(u[1], v[2]), Rat(v[1], u[2])>> : u \in {a}, v \in {b}}} : TRUE

\* a / b, b # 0
RDiv(a, b) == RMul(a, <<b[2], b[1]>>)

RInt(n) == <<n, 1>>

\* the fill value 0.0f of resize()
Zero == <<0, 1>>

(***************************************************************************)
(* std::size_t arithmetic.                                                 *)
(***************************************************************************)
WAdd(a, b) == (a + b) % WordMod

WSub(a, b) == (a + WordMod - b) % WordMod

(***************************************************************************)
(* The process-wide generator behind std::srand / rand: a full-period      *)
(* linear congruential generator over 0..RAND_MAX.                         *)
(***************************************************************************)
Srand(seed) == seed % (RAND_MAX + 1)

RandNext(s) == (5 * s + 3) % (RAND_MAX + 1)

\* static_cast<T>(rand()) / static_cast<T>(RAND_MAX), for the state after the draw
RandUnit(s) == Rat(s, RAND_MAX)

(***************************************************************************)
(* diamond_square::initialize                                              *)
(***************************************************************************)
\* initialize without its upper clamp
ClampFactorLowOnly(factor) == IF factor < min_size THEN min_size ELSE factor

ClampFactor(factor) ==
    LET f1 == IF factor < min_size THEN min_size ELSE factor
    IN  IF f1 > max_size THEN max_size ELSE f1

initialize(factor) == 2^ClampFactor(factor) + 1

(***************************************************************************)
(* diamond_square::get_map_value / set_map_value: the index expression     *)
(* (((y + map_side) % map_side) * map_side) + ((x + map_side) % map_side)  *)
(* on words.                                                               *)
(***************************************************************************)
\* the coordinate wrap without "+ map_side"
WrapCoordNoAdd(c, map_side) == c % map_side

WrapCoord(c, map_side) == WAdd(c, map_side) % map_side

MapIndex(x, y, map_side) ==
    WAdd((WrapCoord(y, map_side) * map_side) % WordMod, WrapCoord(x, map_side))

(***************************************************************************)
(* State.                                                                  *)
(***************************************************************************)
VARIABLES
    \* per instance: the members of diamond_square
    _hmap,          \* the height map, a sequence of T (row-major, 1-based here)
    _map_side,
    _map_offset,    \* [init, val]: no constructor initialises it, set_offset does
    _map_seed,
    map_offset,     \* the object the reference member map_offset is bound to:
                    \* the constructor's offset argument [val, live]
    ctor,           \* the constructor's arguments [factor, offset, seed]
    \* per instance: the frame of a running build_map
    pc, k, step_size, half_step, scale, x, y,
    \* per instance: bookkeeping of the current / last run of build_map
    writes,         \* how often each cell was written in this run
    unwritten,      \* the cells the last step read before any write of this run
    run_seed,       \* the seed the run was started with
    runs,           \* 1 once a run has completed
    iters,          \* the iterations of the while loop begun in this run
    alone_rand,     \* the generator state this run would see with no other caller
    alone_map,      \* the map this run would build with no other caller of rand
    \* process-wide
    rand_state,     \* state of the std::rand generator
    ret,            \* the last public call and what it returned or threw
    \* scheduling of the two building threads
    last, switches,
    \* the index function on its own
    idx,
    \* benchmark.hpp
    bpc, bobj, brec, total_time,    \* per thread: its place in stop(), the object
                                    \* it is called on, its record, its total_time
    nrec,                           \* calls of stop() so far
    bench_mtx, start_bench, end_bench,  \* per benchmark object
    benchmark_log,                  \* the lines of benchmark/log.txt
    clock                           \* std::chrono::system_clock::now()

dsvars == <<_hmap, _map_side, _map_offset, _map_seed, map_offset, ctor>>
framevars == <<pc, k, step_size, half_step, scale, x, y>>
runvars == <<writes, unwritten, run_seed, runs, iters, alone_rand, alone_map>>
schedvars == <<last, switches>>
benchvars == <<bpc, bobj, brec, total_time, nrec, bench_mtx, start_bench, end_bench,
               benchmark_log, clock>>
vars == <<dsvars, framevars, runvars, rand_state, ret, schedvars, idx, benchvars>>

(***************************************************************************)
(* Reading through the reference member map_offset.  The constructor binds *)
(* it to its own parameter (map_offset(offset)), not to _map_offset.  A    *)
(* read yields what the argument's storage holds: the argument's value     *)
(* while the argument is alive, and whatever the caller has put there      *)
(* since (ReuseStorage) once a temporary argument has died.                *)
(***************************************************************************)
ReadMapOffset(i) == map_offset[i].val

(***************************************************************************)
(* Construction.  Both constructors run initialize(factor) and leave _hmap *)
(* empty; the two-argument one takes std::time as the seed (any seed).     *)
(***************************************************************************)
CtorArgs == [factor : FactorArgs, offset : Offsets, seed : Seeds, temp : BOOLEAN]

InitDS(args) ==
    /\ _hmap = [i \in Inst |-> <<>>]
    /\ _map_side = [i \in Inst |-> initialize(args[i].factor)]
    /\ _map_offset = [i \in Inst |-> [init |-> FALSE, val |-> 0]]
    /\ _map_seed = [i \in Inst |-> args[i].seed]
    /\ map_offset = [i \in Inst |-> [val |-> args[i].offset, live |-> ~args[i].temp]]
    /\ ctor = [i \in Inst |-> [factor |-> args[i].factor, offset |-> args[i].offset,
                               seed |-> args[i].seed]]
    /\ pc = [i \in Inst |-> "idle"]
    /\ k = [i \in Inst |-> 0]
    /\ step_size = [i \in Inst |-> 0]
    /\ half_step = [i \in Inst |-> 0]
    /\ scale = [i \in Inst |-> Zero]
    /\ x = [i \in Inst |-> 0]
    /\ y = [i \in Inst |-> 0]
    /\ writes = [i \in Inst |-> <<>>]
    /\ unwritten = [i \in Inst |-> {}]
    /\ run_seed = [i \in Inst |-> 0]
    /\ runs = [i \in Inst |-> 0]
    /\ iters = [i \in Inst |-> 0]
    /\ alone_rand = [i \in Inst |-> 0]
    /\ alone_map = [i \in Inst |-> <<>>]
    /\ rand_state = Srand(1)
    /\ ret = [op |-> "none"]
    /\ last = 0
    /\ switches = 0

InitIndex == idx = [side |-> 0, x |-> 0, y |-> 0, index |-> 0 - 1]

\* the instance the single-instance specifications leave alone
Spare == [factor |-> min_size, offset |-> 1, seed |-> 0, temp |-> FALSE]

(***************************************************************************)
(* build_map, one step per write to _hmap.                                 *)
(***************************************************************************)
Buildable(i) == _map_side[i] <= 2^MaxBuildFactor + 1

Idle(i) == pc[i] = "idle"

get_map_value(h, cx, cy, map_side) == h[MapIndex(cx, cy, map_side) + 1]

set_map_value(h, cx, cy, map_side, new_value) ==
    [h EXCEPT ![MapIndex(cx, cy, map_side) + 1] = new_value]

\* the corner assignments in the opposite order
CornerPosReversed(n, map_side) ==
    CASE n = 0 -> (map_side * map_side) - 1
      [] n = 1 -> (map_side * map_side) - map_side
      [] n = 2 -> map_side - 1
      [] n = 3 -> 0

\* the positions of the four corner assignments, in program order
CornerPos(n, map_side) ==
    CASE n = 0 -> 0
      [] n = 1 -> map_side - 1
      [] n = 2 -> (map_side * map_side) - map_side
      [] n = 3 -> (map_side * map_side) - 1

\* (rand() / RAND_MAX) / map_offset
CornerValue(s, o) == RDiv(RandUnit(s), RInt(o))

\* new_value = rand()/RAND_MAX; new_value = (new_value * scale * 2) / scale;
\* new_value = (cor1 + cor2 + cor3 + cor4 + new_value) / 5
NewValue(cor, s, sc) ==
    LET nv1 == RandUnit(s)
        nv2 == RDiv(RMul(RMul(nv1, sc), RInt(2)), sc)
    IN  RDiv(RAdd(RAdd(RAdd(RAdd(cor[1], cor[2]), cor[3]), cor[4]), nv2), RInt(5))

\* the four coordinates the diamond phase reads at (cx, cy)
DiamondReads(cx, cy, step) ==
    << <<cx, cy>>, <<cx, WAdd(cy, step)>>, <<WAdd(cx, step), cy>>,
       <<WAdd(cx, step), WAdd(cy, step)>> >>

\* the four coordinates the square phase reads at (cx, cy)
SquareReads(cx, cy, half) ==
    << <<cx, WSub(cy, half)>>, <<WAdd(cx, half), cy>>, <<cx, WAdd(cy, half)>>,
       <<WSub(cx, half), cy>> >>

\* the square phase's first x without the half step
SquareStartXNoHalf(cy, half, step) == cy % step

\* first x of the square phase's inner loop
SquareStartX(cy, half, step) == WAdd(cy, half) % step

ReadAll(h, rd, map_side) == [n \in 1..4 |-> get_map_value(h, rd[n][1], rd[n][2], map_side)]

\* the cells among rd not yet written in this run
Unwritten(w, rd, map_side) ==
    {MapIndex(rd[n][1], rd[n][2], map_side) : n \in 1..4} \ {c \in 0..(Len(w) - 1) : w[c + 1] > 0}

Bump(w, pos) == [w EXCEPT ![pos + 1] = @ + 1]

BuildBegin(i) ==
    /\ Idle(i)
    /\ rand_state' = Srand(_map_seed[i])
    /\ _hmap' = [_hmap EXCEPT ![i] = [c \in 1..(_map_side[i] * _map_side[i]) |-> Zero]]
    /\ pc' = [pc EXCEPT ![i] = "corners"]
    /\ k' = [k EXCEPT ![i] = 0]
    /\ writes' = [writes EXCEPT ![i] = [c \in 1..(_map_side[i] * _map_side[i]) |-> 0]]
    /\ unwritten' = [unwritten EXCEPT ![i] = {}]
    /\ run_seed' = [run_seed EXCEPT ![i] = _map_seed[i]]
    /\ alone_rand' = [alone_rand EXCEPT ![i] = Srand(_map_seed[i])]
    /\ alone_map' = [alone_map EXCEPT ![i] = [c \in 1..(_map_side[i] * _map_side[i]) |-> Zero]]
    /\ UNCHANGED <<_map_side, _map_offset, _map_seed, map_offset, ctor>>
    /\ ret' = [op |-> "build_map", inst |-> i]
    /\ iters' = [iters EXCEPT ![i] = 0]
    /\ UNCHANGED <<step_size, half_step, scale, x, y, runs, idx>>

\* a call of build_map on an instance within the bound of the grids built
BuildStart(i) == Buildable(i) /\ BuildBegin(i)

Corner(i) ==
    /\ pc[i] = "corners"
    /\ LET o == ReadMapOffset(i)
           s == RandNext(rand_state)
           a == RandNext(alone_rand[i])
           pos == CornerPos(k[i], _map_side[i])
       IN  /\ rand_state' = s
           /\ alone_rand' = [alone_rand EXCEPT ![i] = a]
           /\ _hmap' = [_hmap EXCEPT ![i][pos + 1] = CornerValue(s, o)]
           /\ alone_map' = [alone_map EXCEPT ![i][pos + 1] = CornerValue(a, o)]
           /\ writes' = [writes EXCEPT ![i] = Bump(@, pos)]
    /\ IF k[i] = 3
       THEN /\ pc' = [pc EXCEPT ![i] = "loop"]
            /\ k' = [k EXCEPT ![i] = 0]
            /\ step_size' = [step_size EXCEPT ![i] = _map_side[i] - 1]
       ELSE /\ k' = [k EXCEPT ![i] = k[i] + 1]
            /\ UNCHANGED <<pc, step_size>>
    /\ UNCHANGED <<_map_side, _map_offset, _map_seed, map_offset, ctor>>
    /\ UNCHANGED <<half_step, scale, x, y, unwritten, run_seed, runs, iters, ret, idx>>

\* a half step one below the step
HalfStepLess(step) == step - 1

\* half_step = step_size / 2 on std::size_t
HalfStep(step) == step \div 2

\* while(step_size > 1): the test, and the loop's first two statements
LoopTest(i) ==
    /\ pc[i] = "loop"
    /\ IF step_size[i] > 1
       THEN /\ scale' = [scale EXCEPT ![i] = RMul(RInt(ReadMapOffset(i)), RInt(step_size[i]))]
            /\ half_step' = [half_step EXCEPT ![i] = HalfStep(step_size[i])]
            /\ x' = [x EXCEPT ![i] = 0]
            /\ y' = [y EXCEPT ![i] = 0]
            /\ pc' = [pc EXCEPT ![i] = "diamond"]
            /\ iters' = [iters EXCEPT ![i] = iters[i] + 1]
            /\ UNCHANGED <<step_size, runs>>
       ELSE /\ pc' = [pc EXCEPT ![i] = "idle"]
            /\ runs' = [runs EXCEPT ![i] = 1]
            /\ UNCHANGED iters
            /\ step_size' = [step_size EXCEPT ![i] = 0]
            /\ half_step' = [half_step EXCEPT ![i] = 0]
            /\ scale' = [scale EXCEPT ![i] = Zero]
            /\ x' = [x EXCEPT ![i] = 0]
            /\ y' = [y EXCEPT ![i] = 0]
    /\ UNCHANGED <<dsvars, k, writes, unwritten, run_seed, alone_rand, alone_map>>
    /\ UNCHANGED <<rand_state, ret, idx>>

\* one iteration of the inner loop of a phase: read rd, draw, write (wx, wy)
PhaseBody(i, rd, wx, wy) ==
    LET s == RandNext(rand_state)
        a == RandNext(alone_rand[i])
        m == _map_side[i]
    IN  /\ rand_state' = s
        /\ alone_rand' = [alone_rand EXCEPT ![i] = a]
        /\ _hmap' = [_hmap EXCEPT ![i] =
                       set_map_value(@, wx, wy, m, NewValue(ReadAll(@, rd, m), s, scale[i]))]
        /\ alone_map' = [alone_map EXCEPT ![i] =
                       set_map_value(@, wx, wy, m, NewValue(ReadAll(@, rd, m), a, scale[i]))]
        /\ unwritten' = [unwritten EXCEPT ![i] = Unwritten(writes[i], rd, m)]
        /\ writes' = [writes EXCEPT ![i] = Bump(@, MapIndex(wx, wy, m))]

\* a diamond phase that writes the middle of the cell's left edge
DiamondTargetEdge(cx, cy, half) == <<cx, WAdd(cy, half)>>

\* set_map_value(x + half_step, y + half_step, new_value)
DiamondTarget(cx, cy, half) == <<WAdd(cx, half), WAdd(cy, half)>>

Diamond(i) ==
    /\ pc[i] = "diamond"
    /\ PhaseBody(i, DiamondReads(x[i], y[i], step_size[i]),
                 DiamondTarget(x[i], y[i], half_step[i])[1],
                 DiamondTarget(x[i], y[i], half_step[i])[2])
    /\ LET x2 == WAdd(x[i], step_size[i])
           y2 == WAdd(y[i], step_size[i])
       IN  IF x2 < _map_side[i] - 1
           THEN /\ x' = [x EXCEPT ![i] = x2]
                /\ UNCHANGED <<y, pc>>
           ELSE IF y2 < _map_side[i] - 1
           THEN /\ y' = [y EXCEPT ![i] = y2]
                /\ x' = [x EXCEPT ![i] = 0]
                /\ UNCHANGED pc
           ELSE /\ pc' = [pc EXCEPT ![i] = "square"]
                /\ y' = [y EXCEPT ![i] = 0]
                /\ x' = [x EXCEPT ![i] = SquareStartX(0, half_step[i], step_size[i])]
    /\ UNCHANGED <<_map_side, _map_offset, _map_seed, map_offset, ctor, k, step_size, half_step, scale>>
    /\ UNCHANGED <<run_seed, runs, iters, ret, idx>>

Square(i) ==
    /\ pc[i] = "square"
    /\ PhaseBody(i, SquareReads(x[i], y[i], half_step[i]), x[i], y[i])
    /\ LET x2 == WAdd(x[i], step_size[i])
           y2 == WAdd(y[i], half_step[i])
       IN  IF x2 <= _map_side[i] - 1
           THEN /\ x' = [x EXCEPT ![i] = x2]
                /\ UNCHANGED <<y, pc, step_size>>
           ELSE IF y2 <= _map_side[i] - 1
           THEN /\ y' = [y EXCEPT ![i] = y2]
                /\ x' = [x EXCEPT ![i] = SquareStartX(y2, half_step[i], step_size[i])]
                /\ UNCHANGED <<pc, step_size>>
           ELSE /\ step_size' = [step_size EXCEPT ![i] = half_step[i]]
                /\ pc' = [pc EXCEPT ![i] = "loop"]
                /\ UNCHANGED <<x, y>>
    /\ UNCHANGED <<_map_side, _map_offset, _map_seed, map_offset, ctor, k, half_step, scale>>
    /\ UNCHANGED <<run_seed, runs, iters, ret, idx>>

(***************************************************************************)
(* The public operations besides build_map.                                *)
(***************************************************************************)
AllIdle == \A j \in Inst : Idle(j)

\* an accessor that clamps the position instead of throwing
AtClamped(h, pos) ==
    IF Len(h) = 0 THEN [thrown |-> TRUE, value |-> Zero]
    ELSE [thrown |-> FALSE, value |-> h[IF pos >= Len(h) THEN Len(h) ELSE pos + 1]]

\* if(pos >= _hmap.size()) throw std::out_of_range(...); return _hmap[pos];
At(h, pos) ==
    IF pos >= Len(h) THEN [thrown |-> TRUE, value |-> Zero]
    ELSE [thrown |-> FALSE, value |-> h[pos + 1]]

\* the positions the accessors are called with
Positions(i) ==
    {0, _map_side[i] - 1, (_map_side[i] * _map_side[i]) - 1, _map_side[i] * _map_side[i],
     (_map_side[i] * _map_side[i]) + 1}

set_seed(i, seed) ==
    /\ _map_seed' = [_map_seed EXCEPT ![i] = seed]
    /\ ret' = [op |-> "set_seed", inst |-> i, seed |-> seed]
    /\ UNCHANGED <<_hmap, _map_side, _map_offset, map_offset, ctor>>
    /\ UNCHANGED <<framevars, runvars, rand_state, idx>>

\* set_offset writing through the reference member map_offset
set_offset_through_reference(i, offset) ==
    /\ map_offset' = [map_offset EXCEPT ![i].val = offset]
    /\ ret' = [op |-> "set_offset", inst |-> i]
    /\ UNCHANGED <<_hmap, _map_side, _map_seed, _map_offset, ctor>>
    /\ UNCHANGED <<framevars, runvars, rand_state, idx>>

set_offset(i, offset) ==
    /\ _map_offset' = [_map_offset EXCEPT ![i] = [init |-> TRUE, val |-> offset]]
    /\ ret' = [op |-> "set_offset", inst |-> i]
    /\ UNCHANGED <<_hmap, _map_side, _map_seed, map_offset, ctor>>
    /\ UNCHANGED <<framevars, runvars, rand_state, idx>>

get_map(i) ==
    /\ ret' = [op |-> "get_map", inst |-> i, map |-> _hmap[i]]
    /\ UNCHANGED <<dsvars, framevars, runvars, rand_state, idx>>

get_value(i, pos) ==
    /\ ret' = [op |-> "get_value", inst |-> i, pos |-> pos, result |-> At(_hmap[i], pos)]
    /\ UNCHANGED <<dsvars, framevars, runvars, rand_state, idx>>

\* operator[]
subscript(i, pos) ==
    /\ ret' = [op |-> "operator[]", inst |-> i, pos |-> pos, result |-> At(_hmap[i], pos)]
    /\ UNCHANGED <<dsvars, framevars, runvars, rand_state, idx>>

\* the caller reuses the storage of the dead temporary map_offset refers to
ReuseStorage(i) ==
    /\ ~map_offset[i].live
    /\ \E v \in Offsets \ {map_offset[i].val} :
         map_offset' = [map_offset EXCEPT ![i].val = v]
    /\ ret' = [op |-> "none"]
    /\ UNCHANGED <<_hmap, _map_side, _map_offset, _map_seed, ctor>>
    /\ UNCHANGED <<framevars, runvars, rand_state, idx>>

\* another caller of rand() in the process
OtherRand ==
    /\ rand_state' = RandNext(rand_state)
    /\ UNCHANGED <<dsvars, framevars, runvars, ret, idx>>

(***************************************************************************)
(* Spec: one instance, used from one thread.                               *)
(***************************************************************************)
BenchThreads == {1, 2}
BenchObjects == {1, 2}

InitBench ==
    /\ bpc = [t \in BenchThreads |-> "idle"]
    /\ bobj = [t \in BenchThreads |-> 1]
    /\ brec = [t \in BenchThreads |-> 0]
    /\ total_time = [t \in BenchThreads |-> 0]
    /\ nrec = 0
    /\ bench_mtx = [b \in BenchObjects |-> 0]
    /\ start_bench = [b \in BenchObjects |-> 0]
    /\ end_bench = [b \in BenchObjects |-> 0]
    /\ benchmark_log = <<>>
    /\ clock = 0

BuildFactors == min_size..MaxBuildFactor

Init ==
    /\ \E a \in [factor : BuildFactors, offset : Offsets, seed : Seeds, temp : BOOLEAN] :
         InitDS([i \in Inst |-> IF i = 1 THEN a ELSE Spare])
    /\ InitIndex
    /\ InitBench

\* the operation leaves the thread schedule and the benchmark alone
Frame == UNCHANGED <<schedvars, benchvars>>

Next ==
    \/ AllIdle /\ BuildStart(1) /\ Frame
    \/ Corner(1) /\ Frame
    \/ LoopTest(1) /\ Frame
    \/ Diamond(1) /\ Frame
    \/ Square(1) /\ Frame
    \/ AllIdle /\ (\E seed \in Seeds : set_seed(1, seed)) /\ Frame
    \/ AllIdle /\ (\E offset \in Offsets : set_offset(1, offset)) /\ Frame
    \/ AllIdle /\ get_map(1) /\ Frame
    \/ AllIdle /\ (\E pos \in Positions(1) : get_value(1, pos)) /\ Frame
    \/ AllIdle /\ (\E pos \in Positions(1) : subscript(1, pos)) /\ Frame
    \/ AllIdle /\ ReuseStorage(1) /\ Frame

Spec == Init /\ [][Next]_vars

(***************************************************************************)
(* build_map alone, run to completion: once called, the function's steps   *)
(* are taken one after the other by the calling thread.                    *)
(***************************************************************************)
LiveFactors == min_size..MaxLiveFactor

InitLive ==
    /\ \E a \in [factor : LiveFactors, offset : Offsets, seed : Seeds, temp : BOOLEAN] :
         InitDS([i \in Inst |-> IF i = 1 THEN a ELSE Spare])
    /\ InitIndex
    /\ InitBench

\* a step of a running build_map
BuildStep(i) == (Corner(i) \/ LoopTest(i) \/ Diamond(i) \/ Square(i)) /\ Frame

NextLive ==
    \/ BuildBegin(1) /\ Frame
    \/ Corner(1) /\ Frame
    \/ LoopTest(1) /\ Frame
    \/ Diamond(1) /\ Frame
    \/ Square(1) /\ Frame

SpecLive == InitLive /\ [][NextLive]_vars /\ WF_vars(BuildStep(1))

(***************************************************************************)
(* SpecSize: construction with every requested factor, then the accessors  *)
(* and setters (no build: the largest sides have 4097 * 4097 cells).       *)
(***************************************************************************)
InitSize ==
    /\ \E a \in CtorArgs : InitDS([i \in Inst |-> IF i = 1 THEN a ELSE Spare])
    /\ InitIndex
    /\ InitBench

NextSize ==
    \/ (\E seed \in Seeds : set_seed(1, seed)) /\ Frame
    \/ (\E offset \in Offsets : set_offset(1, offset)) /\ Frame
    \/ get_map(1) /\ Frame
    \/ (\E pos \in Positions(1) : get_value(1, pos)) /\ Frame
    \/ (\E pos \in Positions(1) : subscript(1, pos)) /\ Frame

SpecSize == InitSize /\ [][NextSize]_vars

(***************************************************************************)
(* SpecPair: two instances constructed with the same arguments, used from  *)
(* one thread, with other callers of rand() in between.                    *)
(***************************************************************************)
InitPair ==
    /\ \E a \in [factor : BuildFactors, offset : Offsets, seed : Seeds, temp : BOOLEAN] :
         InitDS([i \in Inst |-> a])
    /\ InitIndex
    /\ InitBench

NextPair ==
    \/ \E i \in Inst : AllIdle /\ BuildStart(i) /\ Frame
    \/ \E i \in Inst : Corner(i) /\ Frame
    \/ \E i \in Inst : LoopTest(i) /\ Frame
    \/ \E i \in Inst : Diamond(i) /\ Frame
    \/ \E i \in Inst : Square(i) /\ Frame
    \/ \E i \in Inst : AllIdle /\ ReuseStorage(i) /\ Frame
    \/ AllIdle /\ OtherRand /\ Frame

SpecPair == InitPair /\ [][NextPair]_vars

(***************************************************************************)
(* SpecThreads: two threads, each running build_map once on its own        *)
(* instance (constructed from live arguments); the steps interleave with   *)
(* at most MaxSwitches context switches.                                   *)
(***************************************************************************)
InitThreads ==
    /\ \E f \in BuildFactors, o \in Offsets, sd \in [Inst -> Seeds] :
         InitDS([i \in Inst |-> [factor |-> f, offset |-> o, seed |-> sd[i], temp |-> FALSE]])
    /\ InitIndex
    /\ InitBench

CanRun(i) == last \in {0, i} \/ switches < MaxSwitches

Ran(i) ==
    /\ last' = i
    /\ switches' = IF last \in {0, i} THEN switches ELSE switches + 1
    /\ UNCHANGED benchvars

NextThreads ==
    \/ \E i \in Inst : CanRun(i) /\ runs[i] = 0 /\ BuildStart(i) /\ Ran(i)
    \/ \E i \in Inst : CanRun(i) /\ Corner(i) /\ Ran(i)
    \/ \E i \in Inst : CanRun(i) /\ LoopTest(i) /\ Ran(i)
    \/ \E i \in Inst : CanRun(i) /\ Diamond(i) /\ Ran(i)
    \/ \E i \in Inst : CanRun(i) /\ Square(i) /\ Ran(i)

SpecThreads == InitThreads /\ [][NextThreads]_vars

(***************************************************************************)
(* SpecIndex: the index expression of get_map_value / set_map_value on its *)
(* own.  A negative coordinate is the word it wraps to.                    *)
(***************************************************************************)
ToWord(c) == (c + WordMod) % WordMod

ValidSides == {initialize(f) : f \in min_size..max_size}

\* every offset from -side up to below 2 * side on the small sides, the ends
\* of that range on the others
Coords(side) ==
    IF side <= 2^MaxIndexFactor + 1 THEN (0 - side)..((2 * side) - 1)
    ELSE {0 - side, 1 - side, 0 - 1, 0, 1, side - 1, side, (2 * side) - 1}

\* the calls whose index is to be computed
InitCalls ==
    \E side \in ValidSides : \E cx \in Coords(side), cy \in Coords(side) :
        idx = [side |-> side, x |-> cx, y |-> cy, index |-> 0 - 1]

IndexCall ==
    /\ idx.side > 0
    /\ idx.index < 0
    /\ idx' = [idx EXCEPT !.index = MapIndex(ToWord(idx.x), ToWord(idx.y), idx.side)]
    /\ UNCHANGED <<dsvars, framevars, runvars, rand_state, ret, schedvars, benchvars>>

InitIdx ==
    /\ InitDS([i \in Inst |-> Spare])
    /\ InitCalls
    /\ InitBench

SpecIndex == InitIdx /\ [][IndexCall]_vars

(***************************************************************************)
(* benchmark.hpp: start() and stop(), one step per statement of stop()     *)
(* from the lock on.  Every benchmark object appends to the same file.     *)
(***************************************************************************)
dsall == <<dsvars, framevars, runvars, rand_state, ret, schedvars, idx>>

Tick ==
    /\ clock < MaxTicks
    /\ clock' = clock + 1
    /\ UNCHANGED <<bpc, bobj, brec, total_time, nrec, bench_mtx, start_bench, end_bench,
                   benchmark_log>>
    /\ UNCHANGED dsall

start(t, b) ==
    /\ bpc[t] = "idle"
    /\ start_bench' = [start_bench EXCEPT ![b] = clock]
    /\ UNCHANGED <<bpc, bobj, brec, total_time, nrec, bench_mtx, end_bench, benchmark_log,
                   clock>>
    /\ UNCHANGED dsall

\* end_bench = now(); total_time = end_bench - start_bench; ...
StopEnter(t, b) ==
    /\ bpc[t] = "idle"
    /\ nrec < MaxRecords
    /\ end_bench' = [end_bench EXCEPT ![b] = clock]
    /\ total_time' = [total_time EXCEPT ![t] = clock - start_bench[b]]
    /\ bobj' = [bobj EXCEPT ![t] = b]
    /\ nrec' = nrec + 1
    /\ brec' = [brec EXCEPT ![t] = nrec + 1]
    /\ bpc' = [bpc EXCEPT ![t] = "lock"]
    /\ UNCHANGED <<bench_mtx, start_bench, benchmark_log, clock>>
    /\ UNCHANGED dsall

\* bench_mtx.lock(): the mutex is a member of the object stop() is called on
Lock(t) ==
    /\ bpc[t] = "lock"
    /\ bench_mtx[bobj[t]] = 0
    /\ bench_mtx' = [bench_mtx EXCEPT ![bobj[t]] = t]
    /\ bpc' = [bpc EXCEPT ![t] = "open"]
    /\ UNCHANGED <<bobj, brec, total_time, nrec, start_bench, end_bench, benchmark_log,
                   clock>>
    /\ UNCHANGED dsall

\* benchmark_log.open("benchmark/log.txt", std::ios::app)
Open(t) ==
    /\ bpc[t] = "open"
    /\ bpc' = [bpc EXCEPT ![t] = "Benchmark"]
    /\ UNCHANGED <<bobj, brec, total_time, nrec, bench_mtx, start_bench, end_bench,
                   benchmark_log, clock>>
    /\ UNCHANGED dsall

\* the statement after the one that writes line
NextLine(line) ==
    CASE line = "Benchmark" -> "Started at"
      [] line = "Started at" -> "Completed at"
      [] line = "Completed at" -> "Total time"
      [] line = "Total time" -> "endl"
      [] line = "endl" -> "close"

\* what the statement at line appends
LineText(line, total) ==
    IF line = "Total time" /\ total = 0 THEN "Internal clock did not tick" ELSE line

\* one benchmark_log << ... statement
Write(t) ==
    /\ bpc[t] \in {"Benchmark", "Started at", "Completed at", "Total time", "endl"}
    /\ benchmark_log' = Append(benchmark_log,
                               [rec |-> brec[t], line |-> LineText(bpc[t], total_time[t])])
    /\ bpc' = [bpc EXCEPT ![t] = NextLine(bpc[t])]
    /\ UNCHANGED <<bobj, brec, total_time, nrec, bench_mtx, start_bench, end_bench, clock>>
    /\ UNCHANGED dsall

\* benchmark_log.close()
Close(t) ==
    /\ bpc[t] = "close"
    /\ bpc' = [bpc EXCEPT ![t] = "unlock"]
    /\ UNCHANGED <<bobj, brec, total_time, nrec, bench_mtx, start_bench, end_bench,
                   benchmark_log, clock>>
    /\ UNCHANGED dsall

\* bench_mtx.unlock()
Unlock(t) ==
    /\ bpc[t] = "unlock"
    /\ bench_mtx' = [bench_mtx EXCEPT ![bobj[t]] = 0]
    /\ bpc' = [bpc EXCEPT ![t] = "idle"]
    /\ UNCHANGED <<bobj, brec, total_time, nrec, start_bench, end_bench, benchmark_log,
                   clock>>
    /\ UNCHANGED dsall

InitBenchmark ==
    /\ InitDS([i \in Inst |-> Spare])
    /\ InitIndex
    /\ InitBench

NextBenchmark ==
    \/ Tick
    \/ \E t \in BenchThreads, b \in BenchObjects : start(t, b)
    \/ \E t \in BenchThreads, b \in BenchObjects : StopEnter(t, b)
    \/ \E t \in BenchThreads : Lock(t)
    \/ \E t \in BenchThreads : Open(t)
    \/ \E t \in BenchThreads : Write(t)
    \/ \E t \in BenchThreads : Close(t)
    \/ \E t \in BenchThreads : Unlock(t)

SpecBenchmark == InitBenchmark /\ [][NextBenchmark]_vars

(***************************************************************************)
(* Claims.                                                                 *)
(***************************************************************************)

\* C1: for every requested factor, also below min_size = 2 and above
\* max_size = 12, the constructed map_side is 2^c + 1 with c the factor clamped
\* into [2, 12]; it is odd and at least 5, and a factor outside the range gives
\* the side of the nearest boundary factor.
C1_SideOfClampedFactor ==
    \A i \in Inst :
        LET f == ctor[i].factor
            c == IF f < 2 THEN 2 ELSE IF f > 12 THEN 12 ELSE f
        IN  /\ _map_side[i] = 2^c + 1
            /\ _map_side[i] % 2 = 1
            /\ _map_side[i] >= 5
            /\ f < 2 => _map_side[i] = 5
            /\ f > 12 => _map_side[i] = 4097

\* an instance requested with a factor above max_size, after some calls on it
C1_Witness == ctor[1].factor > max_size /\ _map_side[1] = 4097 /\ ret.op = "get_value"

\* C3 (as claimed): in every state after construction, also before the first
\* build_map, the buffer holds map_side * map_side elements, so get_map returns
\* that many and get_value(map_side * map_side - 1) succeeds.
C3_BufferLength ==
    /\ \A i \in Inst : Len(_hmap[i]) = _map_side[i] * _map_side[i]
    /\ ret.op = "get_map" => Len(ret.map) = _map_side[ret.inst] * _map_side[ret.inst]
    /\ (ret.op = "get_value" /\ ret.pos = (_map_side[ret.inst] * _map_side[ret.inst]) - 1)
          => ~ret.result.thrown

\* C4: get_value(pos) and operator[](pos) throw for pos >= the buffer length and
\* return the stored cell at pos otherwise; either way the grid, side, seed and
\* offset are left as they were.
C4_Accessors ==
    [][ret'.op \in {"get_value", "operator[]"} =>
          LET h == _hmap[ret'.inst]
              p == ret'.pos
          IN  /\ p >= Len(h) => ret'.result.thrown
              /\ p < Len(h) => (~ret'.result.thrown /\ ret'.result.value = h[p + 1])
              /\ UNCHANGED <<_hmap, _map_side, _map_seed, _map_offset, map_offset>>]_vars

\* get_value threw on a built map
C4_Witness == ret.op = "get_value" /\ ret.result.thrown /\ Len(_hmap[1]) > 0 /\ runs[1] = 1

\* the cells of instance i written so far in this run
Written(i) == {c \in 0..(Len(writes[i]) - 1) : writes[i][c + 1] > 0}

Corners(i) == {CornerPos(n, _map_side[i]) : n \in 0..3}

\* C5: in one run of build_map every position is written exactly once: no cell is
\* ever written twice, the corners are written by corner seeding, and when the
\* run completes every cell has been written.
C5_WrittenOnce ==
    \A i \in Inst :
        /\ \A c \in 1..Len(writes[i]) : writes[i][c] <= 1
        /\ pc[i] = "corners" => Written(i) \subseteq Corners(i)
        /\ pc[i] \in {"loop", "diamond", "square"} => Corners(i) \subseteq Written(i)
        /\ (Idle(i) /\ runs[i] = 1) =>
              /\ Len(writes[i]) = _map_side[i] * _map_side[i]
              /\ \A c \in 1..Len(writes[i]) : writes[i][c] = 1

\* a run has completed
C5_Witness == Idle(1) /\ runs[1] = 1 /\ Len(writes[1]) = _map_side[1] * _map_side[1]

\* C6 (as claimed): no step of the diamond or square phase reads a cell that has
\* not been written in this run.
C6_NoReadBeforeWrite == \A i \in Inst : unwritten[i] = {}

C2_GridDeterminedByArgs ==
    \A i \in Inst, j \in Inst :
        (/\ Idle(i) /\ runs[i] = 1
         /\ Idle(j) /\ runs[j] = 1
         /\ ctor[i].factor = ctor[j].factor
         /\ ctor[i].offset = ctor[j].offset
         /\ run_seed[i] = run_seed[j])
        => _hmap[i] = _hmap[j]

\* C8 (as claimed): when the builds of two threads interleave, each instance
\* ends with the grid its build produces when it runs alone.
C8_GridAsAlone ==
    \A i \in Inst : (Idle(i) /\ runs[i] = 1) => _hmap[i] = alone_map[i]

\* C10: for every valid side and every coordinate from -side up to below
\* 2 * side (negative ones as wrapped words) the computed index is the torus
\* index (y mod side) * side + (x mod side) and lies in [0, side * side);
\* index(-1, 0) = index(side - 1, 0) and index(side, 0) = index(0, 0).
C10_TorusIndex ==
    /\ (idx.side > 0 /\ idx.index # 0 - 1) =>
          /\ idx.index = ((idx.y % idx.side) * idx.side) + (idx.x % idx.side)
          /\ idx.index >= 0
          /\ idx.index < idx.side * idx.side
    /\ \A side \in ValidSides :
          /\ MapIndex(ToWord(0 - 1), 0, side) = MapIndex(side - 1, 0, side)
          /\ MapIndex(side, 0, side) = MapIndex(0, 0, side)
          /\ MapIndex(side - 1, 0, side) = side - 1
          /\ MapIndex(0, 0, side) = 0

\* the index of a coordinate one half step left of and above the grid
C10_Witness == idx.side = 5 /\ idx.x = 0 - 2 /\ idx.y = 0 - 2 /\ idx.index = 18

\* the threads between open and close of the log
Inside == {t \in BenchThreads :
             bpc[t] \in {"Benchmark", "Started at", "Completed at", "Total time", "endl",
                         "close"}}

\* C9 (as claimed): callers of stop(), on the same or on different benchmark
\* objects, are inside the open-append-close section one at a time, and the
\* lines of one record are never interleaved with those of another.
C9_WritersSerialised ==
    /\ Cardinality(Inside) <= 1
    /\ \A p \in 1..Len(benchmark_log), q \in 1..Len(benchmark_log) :
          (p < q /\ benchmark_log[p].rec = benchmark_log[q].rec) =>
             \A r \in p..q : benchmark_log[r].rec = benchmark_log[p].rec

\* the generator state after the n-th draw that follows srand(seed)
RECURSIVE Draw(_, _)
Draw(seed, n) == IF n = 0 THEN Srand(seed) ELSE RandNext(Draw(seed, n - 1))

\* C11 (as claimed): for side 5, after build_map the bottom-right cell 24 holds
\* the first draw after seeding divided by offset.
C11_LastCellFirstDraw ==
    \A i \in Inst :
        (Idle(i) /\ runs[i] = 1 /\ _map_side[i] = 5) =>
            _hmap[i][25] = RDiv(RandUnit(Draw(run_seed[i], 1)), RInt(ctor[i].offset))

\* C11 (amended): for side 5, cell 24 is written by the last of the four corner
\* assignments, with the fourth draw after seeding divided by what map_offset
\* reads at that step (the constructor's offset while its argument is alive),
\* and no later step of the run changes it.
C11_LastCellFourthDraw ==
    /\ [](\A i \in Inst :
            (Idle(i) /\ runs[i] = 1 /\ _map_side[i] = 5 /\ map_offset[i].live) =>
                _hmap[i][25] = RDiv(RandUnit(Draw(run_seed[i], 4)), RInt(ctor[i].offset)))
    /\ [][\A i \in Inst :
            _map_side[i] = 5 =>
               /\ (pc[i] = "corners" /\ pc'[i] = "loop") =>
                     /\ rand_state' = Draw(run_seed[i], 4)
                     /\ _hmap'[i][25] = RDiv(RandUnit(rand_state'), RInt(ReadMapOffset(i)))
               /\ pc[i] \in {"loop", "diamond", "square"} => _hmap'[i][25] = _hmap[i][25]]_vars

\* a completed run on a side 5 instance whose last cell is not zero
C11_Witness ==
    /\ Idle(1) /\ runs[1] = 1 /\ _map_side[1] = 5
    /\ _hmap[1][25] = RDiv(RandUnit(Draw(run_seed[1], 4)), RInt(ReadMapOffset(1)))
    /\ _hmap[1][25] # Zero

\* the sum of the four values read at the coordinates rd
SumOfReads(h, rd, map_side) ==
    LET cor == ReadAll(h, rd, map_side)
    IN  RAdd(RAdd(RAdd(cor[1], cor[2]), cor[3]), cor[4])

\* the coordinates instance i reads at its current diamond or square cell
PhaseReads(i) ==
    IF pc[i] = "diamond" THEN DiamondReads(x[i], y[i], step_size[i])
    ELSE SquareReads(x[i], y[i], half_step[i])

\* the position instance i writes at its current diamond or square cell
PhaseTarget(i) ==
    IF pc[i] = "diamond"
    THEN MapIndex(WAdd(x[i], half_step[i]), WAdd(y[i], half_step[i]), _map_side[i])
    ELSE MapIndex(x[i], y[i], _map_side[i])

\* C12: every value written by the diamond or square pass is
\* (n1 + n2 + n3 + n4 + r) / 5 where n1..n4 are the four values read and
\* r = u / offset for the uniform draw u of that write.
C12_PerturbationByOffset ==
    [][\A i \in Inst :
         (pc[i] \in {"diamond", "square"} /\ writes'[i] # writes[i]) =>
             _hmap'[i][PhaseTarget(i) + 1] =
                 RDiv(RAdd(SumOfReads(_hmap[i], PhaseReads(i), _map_side[i]),
                           RDiv(RandUnit(rand_state'), RInt(ReadMapOffset(i)))),
                      RInt(5))]_vars

\* what the writes of the two passes do hold: the random term is twice the draw
C12_PerturbationTwiceDraw ==
    [][\A i \in Inst :
         (pc[i] \in {"diamond", "square"} /\ writes'[i] # writes[i]) =>
             _hmap'[i][PhaseTarget(i) + 1] =
                 RDiv(RAdd(SumOfReads(_hmap[i], PhaseReads(i), _map_side[i]),
                           RMul(RInt(2), RandUnit(rand_state'))),
                      RInt(5))]_vars

\* step_size after n executions of step_size = half_step
RECURSIVE StepAfter(_, _)
StepAfter(step, n) == IF n = 0 THEN step ELSE HalfStep(StepAfter(step, n - 1))

\* C13: build_map terminates for every factor from min_size to max_size:
\* step_size starts at map_side - 1, each iteration of the while loop halves it
\* by integer division, it is exactly 1 when the loop is left, which happens
\* after exactly factor iterations, and every inner loop comes to its end, so
\* that a call that has begun returns.
C13_BuildTerminates ==
    /\ [](\A f \in min_size..max_size :
            /\ StepAfter(initialize(f) - 1, f) = 1
            /\ \A n \in 0..(f - 1) : StepAfter(initialize(f) - 1, n) > 1)
    /\ [](\A i \in Inst :
            /\ pc[i] = "loop" =>
                  step_size[i] >= 1 /\ step_size[i] * (2^iters[i]) = _map_side[i] - 1
            /\ pc[i] \in {"diamond", "square"} =>
                  step_size[i] > 1 /\ step_size[i] * (2^(iters[i] - 1)) = _map_side[i] - 1)
    /\ [][\A i \in Inst :
            /\ (pc[i] = "corners" /\ pc'[i] = "loop") =>
                  step_size'[i] = _map_side[i] - 1 /\ iters'[i] = 0
            /\ (pc[i] = "square" /\ pc'[i] = "loop") =>
                  step_size'[i] = step_size[i] \div 2
            /\ (pc[i] = "loop" /\ pc'[i] = "idle") =>
                  step_size[i] = 1 /\ iters[i] = ClampFactor(ctor[i].factor)]_vars
    /\ (pc[1] = "diamond") ~> (pc[1] = "square")
    /\ (pc[1] = "square") ~> (pc[1] = "loop")
    /\ (pc[1] # "idle") ~> (pc[1] = "idle" /\ runs[1] = 1)

\* the loop of a factor 3 build is about to be left after its third iteration
C13_Witness ==
    /\ pc[1] = "loop" /\ step_size[1] = 1
    /\ ctor[1].factor = 3 /\ _map_side[1] = 9 /\ iters[1] = 3

\* the multiples of s among the coordinates below bound
Multiples(s, bound) == {n \in 0..(bound - 1) : n % s = 0}

\* the positions (cx, cy) of instance i with cx and cy multiples of s
Lattice(i, s) ==
    {cy * _map_side[i] + cx : cx \in Multiples(s, _map_side[i]), cy \in Multiples(s, _map_side[i])}

\* the centres (cx + s/2, cy + s/2) of the s by s cells of instance i
Centres(i, s) ==
    {(cy + (s \div 2)) * _map_side[i] + (cx + (s \div 2)) :
        cx \in Multiples(s, _map_side[i] - 1), cy \in Multiples(s, _map_side[i] - 1)}

\* the square pass of instance i has not written yet
SquareNotBegun(i) == pc[i] = "square" /\ y[i] = 0 /\ x[i] = half_step[i]

C15_SetOffsetTakesEffect ==
    /\ [](\A i \in Inst : _map_offset[i].init => ReadMapOffset(i) = _map_offset[i].val)
    /\ [][\A i \in Inst :
            (pc[i] = "corners" /\ _map_offset[i].init) =>
                _hmap'[i][CornerPos(k[i], _map_side[i]) + 1] =
                    RDiv(RandUnit(rand_state'), RInt(_map_offset[i].val))]_vars

\* what the code does: set_offset leaves what map_offset reads as it was
C15_SetOffsetUnread ==
    [][(ret'.op = "set_offset" /\ ret' # ret) => map_offset' = map_offset]_vars

====
